---- MODULE Spec2Model ----
(***************************************************************************)
(* Group-alias binding engine of the identity store                        *)
(* (vault/identity_store_group_aliases.go).                                *)
(*                                                                         *)
(* The request handlers pathGroupAliasRegister, pathGroupAliasIDUpdate,    *)
(* handleGroupAliasUpdateCommon, pathGroupAliasIDRead, pathAliasIDDelete   *)
(* and pathGroupAliasIDList are translated from the source.  The MemDB     *)
(* accessors, the sanitizers, upsertGroup, deleteGroupAlias and the mount  *)
(* validator are called by that file but defined elsewhere; they are       *)
(* modelled from the design document.                                      *)
(***************************************************************************)
EXTENDS Integers, Sequences, FiniteSets, TLC

\* ------------------------------------------------------------------ bounds
MaxAliases == 2
MaxGroups == 2

Procs == {"w1", "w2"}

\* ------------------------------------------------------------- identifiers
\* Identifiers are strings in the source; "" is the empty identifier.  Alias
\* and group identifiers are generated independently, so they are kept in two
\* disjoint families.
Empty == <<"", 0>>
Absent == <<"absent", 0>>
AliasId(n) == <<"a", n>>
GroupId(n) == <<"g", n>>
AllAliasIds == {AliasId(n) : n \in 1..MaxAliases}
AllGroupIds == {GroupId(n) : n \in 1..MaxGroups}

\* The nil pointer.
Nil == [nil |-> TRUE]

\* The alias a group's list points at while the handler is still filling in
\* its fields: the list holds a pointer to groupAlias, so the fields written
\* at lines 224-227 and by sanitizeGroupAlias show through it.
Ptr == [ptr |-> TRUE]

\* ------------------------------------------------------------------ inputs
Names == {"", "alice", "bob"}
MountAccessors == {"", "auth_userpass_1234", "bogus"}
ValidMounts == {"auth_userpass_1234"}
IdInputs == {Absent, Empty} \cup AllAliasIds
GroupIdInputs == {Empty} \cup AllGroupIds \cup {AliasId(1)}

VARIABLES
    aliases,      \* MemDB alias table: alias id -> alias record or Nil
    groups,       \* MemDB group table: group id -> group record or Nil
    store,        \* Packed Store: group id -> persisted group record or Nil
    groupLock,    \* holder of i.groupLock, or "free"
    pc,           \* position of each worker in its handler
    call,         \* the handler a worker is in
    work,         \* the handler's locals between validation and upsertGroup
    snap,         \* index and store as they were when the worker took the lock
    nextAlias,    \* number of the next alias id the generator hands out
    nextGroup,    \* number of the next group id the generator hands out
    last,         \* the operation that finished last, with its response,
                  \* until a worker next enters a handler or takes the lock,
                  \* or a List is begun
    reg,          \* alias id -> name and mount accessor supplied at registration
    iter,         \* the open iterator of a List, or Nil
    line104,      \* what the identifier groupID of line 104 stands for
    observe       \* the operations whose outcome is recorded in last

vars == <<aliases, groups, store, groupLock, pc, call, work, snap,
          nextAlias, nextGroup, last, reg, iter,
          line104, observe>>

\* ------------------------------------------------------- sequence helpers
SeqIds(s) == {s[k].ID : k \in DOMAIN s}

RECURSIVE RemoveID(_, _)
RemoveID(s, id) ==
    IF s = <<>> THEN <<>>
    ELSE IF Head(s).ID = id THEN Tail(s)
    ELSE <<Head(s)>> \o RemoveID(Tail(s), id)

\* ------------------------------------------------------------ request fields
\* d.Get(k): the value of a field, "" when the request does not carry it.
Get(v) == IF v = Absent THEN Empty ELSE v

GetOk_NonEmpty(v) == v \notin {Absent, Empty}

\* d.GetOk("id"): whether the request carries the field at all.
GetOk(v) == v # Absent

\* --------------------------------------------------------- MemDB accessors
memDBGroupAliasByID(id) ==
    IF id \in AllAliasIds THEN aliases[id] ELSE Nil

memDBGroupByID(id) ==
    IF id \in AllGroupIds THEN groups[id] ELSE Nil

memDBGroupAliasByFactors(mountAccessor, name) ==
    LET hits == {a \in AllAliasIds :
                    /\ aliases[a] # Nil
                    /\ aliases[a].MountAccessor = mountAccessor
                    /\ aliases[a].Name = name}
    IN IF hits = {} THEN Nil ELSE aliases[CHOOSE a \in hits : TRUE]

memDBGroupByAliasID(aliasID) ==
    LET hits == {g \in AllGroupIds :
                    groups[g] # Nil /\ aliasID \in SeqIds(groups[g].Alias)}
    IN IF hits = {} THEN Nil ELSE groups[CHOOSE g \in hits : TRUE]

\* ----------------------------------------------------------- mount validator
MountTypeOf(m) == IF m = "auth_userpass_1234" THEN "userpass" ELSE "ldap"

validateMountAccessorFunc(mountAccessor) ==
    IF mountAccessor \in ValidMounts
    THEN [MountAccessor |-> mountAccessor, MountType |-> MountTypeOf(mountAccessor)]
    ELSE Nil

\* ------------------------------------------------------------ group helpers
deleteAliasFromGroup(group, groupAlias) ==
    [group EXCEPT !.Alias = RemoveID(group.Alias, groupAlias.ID)]

updateAliasInGroup(group, groupAlias) ==
    [group EXCEPT !.Alias =
        [k \in DOMAIN group.Alias |->
            IF group.Alias[k].ID = groupAlias.ID THEN Ptr ELSE group.Alias[k]]]

sanitizeGroup(group) ==
    IF group.ID = Empty THEN [group EXCEPT !.ID = GroupId(nextGroup)] ELSE group

sanitizeGroupAlias(groupAlias) ==
    IF groupAlias.ID = Empty
    THEN [groupAlias EXCEPT !.ID = AliasId(nextAlias)]
    ELSE groupAlias

\* The group with the pointer in its alias list followed to the alias record.
Deref(group, groupAlias) ==
    [group EXCEPT !.Alias =
        [k \in DOMAIN group.Alias |->
            IF group.Alias[k] = Ptr THEN groupAlias ELSE group.Alias[k]]]

\* ------------------------------------------------------------------ responses
NoData == [id |-> Empty, group_id |-> Empty]

ErrorResponse(msg) ==
    [status |-> "error", msg |-> msg, warned |-> FALSE, data |-> NoData]

FatalError(msg) ==
    [status |-> "fatal", msg |-> msg, warned |-> FALSE, data |-> NoData]

OkResponse(warned, data) ==
    [status |-> "ok", msg |-> "", warned |-> warned, data |-> data]

InUse == "combination of mount and group alias name is already in use"

\* What handleGroupAliasUpdateCommon hands to upsertGroup.
Proceed(group, previousGroup, groupAlias, warned) ==
    [status |-> "proceed", group |-> group, previousGroup |-> previousGroup,
     groupAlias |-> groupAlias, warned |-> warned]

EmptyAlias ==
    [ID |-> Empty, Name |-> "", MountType |-> "", MountAccessor |-> "",
     GroupID |-> Empty]

\* --------------------------------------------- handleGroupAliasUpdateCommon
UpdateFields_NameNotWritten(groupAlias, groupAliasName, mountValidationResp, group) ==
    [groupAlias EXCEPT !.MountType = mountValidationResp.MountType,
                       !.MountAccessor = mountValidationResp.MountAccessor,
                       !.GroupID = group.ID]

\* Lines 224-227: the fields written onto the alias.
UpdateFields(groupAlias, groupAliasName, mountValidationResp, group) ==
    [groupAlias EXCEPT !.Name = groupAliasName,
                       !.MountType = mountValidationResp.MountType,
                       !.MountAccessor = mountValidationResp.MountAccessor,
                       !.GroupID = group.ID]

\* Lines 215-233: ids for new entities, then the alias fields.
Finish(d, mountValidationResp, groupAlias, group, previousGroup, warned) ==
    LET g == sanitizeGroup(group)
        ga == sanitizeGroupAlias(
                  UpdateFields(groupAlias, d.name, mountValidationResp, g))
    IN Proceed(Deref(g, ga), previousGroup, ga, warned)

CreatePath_NoFactorCheck(d, mountValidationResp, groupAlias, group, groupAliasByFactors) ==
    IF group = Nil
    THEN Finish(d, mountValidationResp, groupAlias,
                [ID |-> Empty, Alias |-> <<Ptr>>], Nil, FALSE)
    ELSE Finish(d, mountValidationResp, groupAlias,
                [group EXCEPT !.Alias = <<Ptr>>], Nil, FALSE)

CreatePath_NewGroupWithoutAlias(d, mountValidationResp, groupAlias, group, groupAliasByFactors) ==
    IF groupAliasByFactors # Nil THEN ErrorResponse(InUse)
    ELSE IF group = Nil
    THEN Finish(d, mountValidationResp, groupAlias,
                [ID |-> Empty, Alias |-> <<>>], Nil, FALSE)
    ELSE Finish(d, mountValidationResp, groupAlias,
                [group EXCEPT !.Alias = <<Ptr>>], Nil, FALSE)

\* Lines 163-178: the create path.
CreatePath(d, mountValidationResp, groupAlias, group, groupAliasByFactors) ==
    IF groupAliasByFactors # Nil THEN ErrorResponse(InUse)
    ELSE IF group = Nil
    THEN Finish(d, mountValidationResp, groupAlias,
                [ID |-> Empty, Alias |-> <<Ptr>>], Nil, FALSE)
    ELSE Finish(d, mountValidationResp, groupAlias,
                [group EXCEPT !.Alias = <<Ptr>>], Nil, FALSE)

UpdatePath_NoRemoval(d, mountValidationResp, groupAlias, group, groupAliasByFactors) ==
    LET existingGroup == memDBGroupByAliasID(groupAlias.ID)
    IN IF groupAliasByFactors # Nil /\ groupAliasByFactors.ID # groupAlias.ID
       THEN ErrorResponse(InUse)
       ELSE IF existingGroup = Nil
       THEN FatalError("group alias is not associated with a group")
       ELSE IF group # Nil /\ group.ID # existingGroup.ID
       THEN Finish(d, mountValidationResp, groupAlias,
                   [group EXCEPT !.Alias = Append(group.Alias, Ptr)],
                   existingGroup, TRUE)
       ELSE Finish(d, mountValidationResp, groupAlias,
                   updateAliasInGroup(existingGroup, groupAlias), Nil, FALSE)

UpdatePath_PreviousNotPassed(d, mountValidationResp, groupAlias, group, groupAliasByFactors) ==
    LET existingGroup == memDBGroupByAliasID(groupAlias.ID)
    IN IF groupAliasByFactors # Nil /\ groupAliasByFactors.ID # groupAlias.ID
       THEN ErrorResponse(InUse)
       ELSE IF existingGroup = Nil
       THEN FatalError("group alias is not associated with a group")
       ELSE IF group # Nil /\ group.ID # existingGroup.ID
       THEN Finish(d, mountValidationResp, groupAlias,
                   [group EXCEPT !.Alias = Append(group.Alias, Ptr)],
                   Nil, TRUE)
       ELSE Finish(d, mountValidationResp, groupAlias,
                   updateAliasInGroup(existingGroup, groupAlias), Nil, FALSE)

\* Lines 179-213: the update path.
UpdatePath(d, mountValidationResp, groupAlias, group, groupAliasByFactors) ==
    LET existingGroup == memDBGroupByAliasID(groupAlias.ID)
    IN IF groupAliasByFactors # Nil /\ groupAliasByFactors.ID # groupAlias.ID
       THEN ErrorResponse(InUse)
       ELSE IF existingGroup = Nil
       THEN FatalError("group alias is not associated with a group")
       ELSE IF group # Nil /\ group.ID # existingGroup.ID
       THEN Finish(d, mountValidationResp, groupAlias,
                   [group EXCEPT !.Alias = Append(group.Alias, Ptr)],
                   deleteAliasFromGroup(existingGroup, groupAlias), TRUE)
       ELSE Finish(d, mountValidationResp, groupAlias,
                   updateAliasInGroup(existingGroup, groupAlias), Nil, FALSE)

handleGroupAliasUpdateCommon_NameFirst(d, groupAliasIn) ==
    LET newGroupAlias == groupAliasIn = Nil
        groupAlias == IF newGroupAlias THEN EmptyAlias ELSE groupAliasIn
        groupID == Get(d.group_id)
        group == IF groupID # Empty THEN memDBGroupByID(groupID) ELSE Nil
        groupAliasName == d.name
        mountAccessor == d.mount_accessor
        mountValidationResp == validateMountAccessorFunc(mountAccessor)
        groupAliasByFactors ==
            memDBGroupAliasByFactors(mountValidationResp.MountAccessor,
                                     groupAliasName)
    IN IF groupAliasName = "" THEN ErrorResponse("missing alias name")
       ELSE IF mountAccessor = "" THEN ErrorResponse("missing mount_accessor")
       ELSE IF mountValidationResp = Nil
       THEN ErrorResponse("invalid mount accessor")
       ELSE IF groupID # Empty /\ group = Nil
       THEN ErrorResponse("invalid group ID")
       ELSE IF newGroupAlias
       THEN CreatePath(d, mountValidationResp, groupAlias, group,
                       groupAliasByFactors)
       ELSE UpdatePath(d, mountValidationResp, groupAlias, group,
                       groupAliasByFactors)

\* Lines 115-233: everything up to the call of upsertGroup.  groupAliasIn is
\* Nil when a new alias is being registered.
handleGroupAliasUpdateCommon(d, groupAliasIn) ==
    LET newGroupAlias == groupAliasIn = Nil
        groupAlias == IF newGroupAlias THEN EmptyAlias ELSE groupAliasIn
        groupID == Get(d.group_id)
        group == IF groupID # Empty THEN memDBGroupByID(groupID) ELSE Nil
        groupAliasName == d.name
        mountAccessor == d.mount_accessor
        mountValidationResp == validateMountAccessorFunc(mountAccessor)
        groupAliasByFactors ==
            memDBGroupAliasByFactors(mountValidationResp.MountAccessor,
                                     groupAliasName)
    IN IF groupID # Empty /\ group = Nil THEN ErrorResponse("invalid group ID")
       ELSE IF groupAliasName = "" THEN ErrorResponse("missing alias name")
       ELSE IF mountAccessor = "" THEN ErrorResponse("missing mount_accessor")
       ELSE IF mountValidationResp = Nil
       THEN ErrorResponse("invalid mount accessor")
       ELSE IF newGroupAlias
       THEN CreatePath(d, mountValidationResp, groupAlias, group,
                       groupAliasByFactors)
       ELSE UpdatePath(d, mountValidationResp, groupAlias, group,
                       groupAliasByFactors)

\* ------------------------------------------------------------------ upsertGroup
\* The target group and, on a transfer, the previous group are written to the
\* Packed Store as one batch, and only then is the new state committed to
\* MemDB in one transaction.  The write of either record may fail; the outcome
\* names the one that did.
UpsertOutcomes(previousGroup) ==
    {"ok", "fail_primary"} \cup
    (IF previousGroup # Nil THEN {"fail_previous"} ELSE {})

PutItem(st, group) == [st EXCEPT ![group.ID] = group]

\* Both records are written or neither: whichever write fails, the store is
\* left as it was.
UpsertStore(group, previousGroup, outcome) ==
    IF outcome # "ok" THEN store
    ELSE IF previousGroup = Nil THEN PutItem(store, group)
    ELSE PutItem(PutItem(store, group), previousGroup)

UpsertAliases(group, outcome) ==
    IF outcome # "ok" THEN aliases
    ELSE [a \in AllAliasIds |->
            IF a \in SeqIds(group.Alias)
            THEN group.Alias[CHOOSE k \in DOMAIN group.Alias :
                                 group.Alias[k].ID = a]
            ELSE aliases[a]]

UpsertGroups(group, previousGroup, outcome) ==
    IF outcome # "ok" THEN groups
    ELSE IF previousGroup = Nil THEN [groups EXCEPT ![group.ID] = group]
    ELSE [groups EXCEPT ![group.ID] = group,
                        ![previousGroup.ID] = previousGroup]

\* ------------------------------------------------------------ deleteGroupAlias
DeleteOutcomes(id) ==
    IF memDBGroupAliasByID(id) # Nil /\ memDBGroupByAliasID(id) # Nil
    THEN {"ok", "fail"}
    ELSE {"ok"}

DeleteResponse(id, outcome) ==
    IF memDBGroupAliasByID(id) = Nil THEN OkResponse(FALSE, NoData)
    ELSE IF memDBGroupByAliasID(id) = Nil
    THEN FatalError("alias not associated to a group")
    ELSE IF outcome = "fail" THEN FatalError("storage failure")
    ELSE OkResponse(FALSE, NoData)

\* The owning group once the alias is taken out of its list.
DeleteGroup(id) ==
    deleteAliasFromGroup(memDBGroupByAliasID(id), memDBGroupAliasByID(id))

DeleteIO(id, outcome) ==
    IF memDBGroupAliasByID(id) # Nil /\ memDBGroupByAliasID(id) # Nil
    THEN outcome ELSE "none"

DeleteCommits(id, outcome) ==
    /\ memDBGroupAliasByID(id) # Nil
    /\ memDBGroupByAliasID(id) # Nil
    /\ outcome = "ok"

\* ----------------------------------------------------------------------- Read
NoView ==
    [name |-> "", mount_accessor |-> "", mount_type |-> "", group_id |-> Empty]

handleAliasReadCommon(groupAlias) ==
    IF groupAlias = Nil
    THEN [status |-> "notfound", msg |-> "", warned |-> FALSE, data |-> NoView]
    ELSE [status |-> "ok", msg |-> "", warned |-> FALSE,
          data |-> [name |-> groupAlias.Name,
                    mount_accessor |-> groupAlias.MountAccessor,
                    mount_type |-> groupAlias.MountType,
                    group_id |-> groupAlias.GroupID]]

\* ------------------------------------------------------------------ the state
Line104Readings == {"groupAliasID", "group_id"}

Index == [aliases |-> aliases, groups |-> groups, store |-> store]

NoCall == [op |-> "none", path |-> "none"]

NoFields ==
    [id |-> Empty, name |-> "", mount_accessor |-> "", group_id |-> Empty]

NoLast ==
    [op |-> "none", path |-> "none", d |-> NoFields,
     resp |-> OkResponse(FALSE, NoData), pre |-> Nil, io |-> "none"]

\* pre is the index and store the operation started from (for a List, the ids
\* live when its iterator was made); io is what became of the operation's
\* Packed Store writes ("none" when it made none).
Done(op, path, d, resp, pre, io) ==
    IF op \in observe
    THEN [op |-> op, path |-> path, d |-> d, resp |-> resp, pre |-> pre,
          io |-> io]
    ELSE NoLast

\* The identity store after construction, with the operations to be watched.
Start(watched) ==
    /\ aliases = [a \in AllAliasIds |-> Nil]
    /\ groups = [g \in AllGroupIds |-> Nil]
    /\ store = [g \in AllGroupIds |-> Nil]
    /\ groupLock = "free"
    /\ pc = [p \in Procs |-> "idle"]
    /\ call = [p \in Procs |-> NoCall]
    /\ work = [p \in Procs |-> Nil]
    /\ snap = [p \in Procs |-> Nil]
    /\ nextAlias = 1
    /\ nextGroup = 1
    /\ last = NoLast
    /\ reg = [a \in AllAliasIds |-> Nil]
    /\ iter = Nil
    /\ line104 \in Line104Readings
    /\ observe = watched

Init == Start({"register", "update", "delete"})

\* -------------------------------------------------------------------- actions
\* A request is immutable: a worker that has to wait for the lock keeps only
\* the handler it is in, and the fields are drawn where the handler acts on
\* their value (IdsOf gives the ids its entry let through).
Enter(p, op, path) ==
    /\ pc' = [pc EXCEPT ![p] = "wait"]
    /\ call' = [call EXCEPT ![p] = [op |-> op, path |-> path]]
    /\ last' = NoLast

Refuse(op, path, id, msg) ==
    /\ last' = Done(op, path, [NoFields EXCEPT !.id = id], ErrorResponse(msg),
                    Index, "none")
    /\ UNCHANGED <<pc, call>>

\* Entry of pathGroupAliasIDUpdate, lines 95-99, up to the lock.
IDUpdateEntry(p, op, id) ==
    IF Get(id) = Empty
    THEN Refuse(op, "update", id, "empty group alias ID")
    ELSE Enter(p, op, "update")

\* pathGroupAliasRegister, lines 83-89: a request that carries an id field is
\* handed to pathGroupAliasIDUpdate, any other goes on to take the lock.
pathGroupAliasRegister(p, id) ==
    /\ pc[p] = "idle"
    /\ IF GetOk(id)
       THEN IDUpdateEntry(p, "register", id)
       ELSE Enter(p, "register", "create")
    /\ UNCHANGED <<aliases, groups, store, groupLock, work, snap, nextAlias,
                   nextGroup, reg, iter, line104, observe>>

pathGroupAliasIDUpdate(p, id) ==
    /\ pc[p] = "idle"
    /\ IDUpdateEntry(p, "update", id)
    /\ UNCHANGED <<aliases, groups, store, groupLock, work, snap, nextAlias,
                   nextGroup, reg, iter, line104, observe>>

\* pathAliasIDDelete, lines 270-276, up to the lock deleteGroupAlias takes.
pathAliasIDDelete(p, id) ==
    /\ pc[p] = "idle"
    /\ IF id = Empty
       THEN Refuse("delete", "delete", id, "missing group alias ID")
       ELSE Enter(p, "delete", "delete")
    /\ UNCHANGED <<aliases, groups, store, groupLock, work, snap, nextAlias,
                   nextGroup, reg, iter, line104, observe>>

IdsOf(path) ==
    IF path = "create" THEN {id \in IdInputs : ~GetOk(id)}
    ELSE {id \in IdInputs : Get(id) # Empty}

LockFree_NotExclusive(p) == TRUE

\* i.groupLock.Lock(), lines 89 and 101.
LockFree(p) == groupLock = "free"

Unlock_Forgotten(p) == UNCHANGED groupLock

\* defer i.groupLock.Unlock(), lines 90 and 102: runs on every return of the
\* handler that took the lock.
Unlock(p) == groupLock' = "free"

Lock(p) ==
    /\ pc[p] = "wait"
    /\ LockFree(p)
    /\ groupLock' = p
    /\ pc' = [pc EXCEPT ![p] = "locked"]
    /\ snap' = [snap EXCEPT ![p] = Index]
    /\ last' = NoLast
    /\ UNCHANGED <<aliases, groups, store, call, work, nextAlias, nextGroup,
                   reg, iter, line104, observe>>

\* Line 104: the alias is looked up under the identifier groupID, which
\* pathGroupAliasIDUpdate does not declare.  The file offers two values for
\* it: the function's own local groupAliasID (line 96), and the group_id
\* field that carries the name groupID in handleGroupAliasUpdateCommon
\* (line 129).  Which one a build takes is fixed for the whole behaviour.
UpdateLookupKey(d) ==
    IF line104 = "groupAliasID" THEN Get(d.id) ELSE Get(d.group_id)

\* What the handler answers before upsertGroup, or the plan it hands to it.
Plan(path, d) ==
    IF path = "create" THEN handleGroupAliasUpdateCommon(d, Nil)
    ELSE IF memDBGroupAliasByID(UpdateLookupKey(d)) = Nil
    THEN ErrorResponse("invalid group alias ID")
    ELSE handleGroupAliasUpdateCommon(d, memDBGroupAliasByID(UpdateLookupKey(d)))

WithinBounds(plan) ==
    /\ plan.groupAlias.ID \in AllAliasIds
    /\ plan.group.ID \in AllGroupIds

\* The locked part of pathGroupAliasRegister / pathGroupAliasIDUpdate up to
\* upsertGroup (lines 104-233).
Handle(p, d) ==
    /\ pc[p] = "locked"
    /\ call[p].path \in {"create", "update"}
    /\ d.id \in IdsOf(call[p].path)
    /\ LET plan == Plan(call[p].path, d)
       IN IF plan.status = "proceed"
          THEN /\ WithinBounds(plan)
               /\ work' = [work EXCEPT ![p] = [d |-> d, plan |-> plan]]
               /\ pc' = [pc EXCEPT ![p] = "upsert"]
               /\ UNCHANGED <<groupLock, call, snap, last>>
          ELSE /\ last' = Done(call[p].op, call[p].path, d, plan, snap[p], "none")
               /\ pc' = [pc EXCEPT ![p] = "idle"]
               /\ call' = [call EXCEPT ![p] = NoCall]
               /\ snap' = [snap EXCEPT ![p] = Nil]
               /\ Unlock(p)
               /\ UNCHANGED work
    /\ UNCHANGED <<aliases, groups, store, nextAlias, nextGroup, reg, iter,
                   line104, observe>>

UpsertResponse_ErrorDropped(plan, outcome) ==
    OkResponse(plan.warned,
               [id |-> plan.groupAlias.ID, group_id |-> plan.group.ID])

\* Lines 239-250: the answer once upsertGroup has returned.
UpsertResponse(plan, outcome) ==
    IF outcome = "ok"
    THEN OkResponse(plan.warned,
                    [id |-> plan.groupAlias.ID, group_id |-> plan.group.ID])
    ELSE FatalError("storage failure")

\* upsertGroup and the return, lines 235-250, then the deferred Unlock.
Upsert(p, outcome) ==
    /\ pc[p] = "upsert"
    /\ LET plan == work[p].plan
           d == work[p].d
       IN /\ outcome \in UpsertOutcomes(plan.previousGroup)
          /\ store' = UpsertStore(plan.group, plan.previousGroup, outcome)
          /\ aliases' = UpsertAliases(plan.group, outcome)
          /\ groups' = UpsertGroups(plan.group, plan.previousGroup, outcome)
          /\ nextAlias' = IF outcome = "ok" /\ plan.groupAlias.ID = AliasId(nextAlias)
                          THEN nextAlias + 1 ELSE nextAlias
          /\ nextGroup' = IF outcome = "ok" /\ plan.group.ID = GroupId(nextGroup)
                          THEN nextGroup + 1 ELSE nextGroup
          /\ last' = Done(call[p].op, call[p].path, d,
                          UpsertResponse(plan, outcome), snap[p], outcome)
          /\ reg' = IF outcome # "ok" THEN reg
                    ELSE IF call[p].path = "create"
                    THEN [reg EXCEPT ![plan.groupAlias.ID] =
                              [name |-> d.name, mount_accessor |-> d.mount_accessor]]
                    ELSE [reg EXCEPT ![plan.groupAlias.ID] = Nil]
    /\ pc' = [pc EXCEPT ![p] = "idle"]
    /\ call' = [call EXCEPT ![p] = NoCall]
    /\ work' = [work EXCEPT ![p] = Nil]
    /\ snap' = [snap EXCEPT ![p] = Nil]
    /\ Unlock(p)
    /\ UNCHANGED <<iter, line104, observe>>

\* deleteGroupAlias under the lock.
deleteGroupAlias(p, id, outcome) ==
    /\ pc[p] = "locked"
    /\ call[p].path = "delete"
    /\ outcome \in DeleteOutcomes(id)
    /\ IF DeleteCommits(id, outcome)
       THEN /\ store' = PutItem(store, DeleteGroup(id))
            /\ groups' = PutItem(groups, DeleteGroup(id))
            /\ aliases' = [aliases EXCEPT ![id] = Nil]
            /\ reg' = [reg EXCEPT ![id] = Nil]
       ELSE UNCHANGED <<store, groups, aliases, reg>>
    /\ last' = Done("delete", "delete", [NoFields EXCEPT !.id = id],
                    DeleteResponse(id, outcome), snap[p], DeleteIO(id, outcome))
    /\ pc' = [pc EXCEPT ![p] = "idle"]
    /\ call' = [call EXCEPT ![p] = NoCall]
    /\ snap' = [snap EXCEPT ![p] = Nil]
    /\ Unlock(p)
    /\ UNCHANGED <<work, nextAlias, nextGroup, iter, line104, observe>>

\* pathGroupAliasIDRead, lines 255-267: no lock is taken.
pathGroupAliasIDRead(id) ==
    /\ last' = Done("read", "read", [NoFields EXCEPT !.id = id],
                    IF id = Empty THEN ErrorResponse("empty group alias id")
                    ELSE handleAliasReadCommon(memDBGroupAliasByID(id)),
                    Nil, "none")
    /\ UNCHANGED <<aliases, groups, store, groupLock, pc, call, work, snap,
                   nextAlias, nextGroup, reg, iter, line104, observe>>

\* The read transaction of memDBGroupAliases: the alias table as it is when
\* the iterator is made.  Later commits build a new table and leave this one
\* be.
memDBGroupAliases == aliases

\* Lines 288-295: the loop over iter.Next(), in the order of the id index,
\* collecting each record's ID.
RECURSIVE ListIDs_GroupID(_, _)
ListIDs_GroupID(rows, n) ==
    IF n > MaxAliases THEN <<>>
    ELSE (IF rows[AliasId(n)] = Nil THEN <<>> ELSE <<rows[AliasId(n)].GroupID>>)
         \o ListIDs_GroupID(rows, n + 1)

RECURSIVE ListIDs(_, _)
ListIDs(rows, n) ==
    IF n > MaxAliases THEN <<>>
    ELSE (IF rows[AliasId(n)] = Nil THEN <<>> ELSE <<rows[AliasId(n)].ID>>)
         \o ListIDs(rows, n + 1)

\* logical.ListResponse, line 297.
ListResponse(keys) ==
    [status |-> "ok", msg |-> "", warned |-> FALSE, data |-> [keys |-> keys]]

\* pathGroupAliasIDList, lines 281-286: the iterator is made; no lock is taken.
ListOpen ==
    /\ iter = Nil
    /\ iter' = memDBGroupAliases
    /\ last' = NoLast
    /\ UNCHANGED <<aliases, groups, store, groupLock, pc, call, work, snap,
                   nextAlias, nextGroup, reg, line104, observe>>

\* pathGroupAliasIDList, lines 288-297: the iterator is drained and the ids
\* are returned.
pathGroupAliasIDList ==
    /\ iter # Nil
    /\ last' = Done("list", "list", NoFields,
                    ListResponse(ListIDs(iter, 1)),
                    {a \in AllAliasIds : iter[a] # Nil}, "none")
    /\ iter' = Nil
    /\ UNCHANGED <<aliases, groups, store, groupLock, pc, call, work, snap,
                   nextAlias, nextGroup, reg, line104, observe>>

Requests ==
    [id : IdInputs, name : Names, mount_accessor : MountAccessors,
     group_id : GroupIdInputs]

Next ==
    \/ \E p \in Procs, id \in IdInputs : pathGroupAliasRegister(p, id)
    \/ \E p \in Procs, id \in AllAliasIds : pathGroupAliasIDUpdate(p, id)
    \/ \E p \in Procs, id \in {Empty} \cup AllAliasIds : pathAliasIDDelete(p, id)
    \/ \E p \in Procs : Lock(p)
    \/ \E p \in Procs, d \in Requests : Handle(p, d)
    \/ \E p \in Procs, outcome \in {"ok", "fail_primary", "fail_previous"} :
          Upsert(p, outcome)
    \/ \E p \in Procs, id \in AllAliasIds, outcome \in {"ok", "fail"} :
          deleteGroupAlias(p, id, outcome)

Spec == Init /\ [][Next]_vars

\* Scheduling.  A goroutine that holds the lock keeps running until its
\* handler returns.  sync.Mutex hands the lock to a waiter that has been
\* passed over (starvation mode), so a worker that finds the lock free again
\* and again does get it.
Fairness ==
    \A p \in Procs :
        /\ SF_vars(Lock(p))
        /\ WF_vars(\E d \in Requests : Handle(p, d))
        /\ WF_vars(\E outcome \in {"ok", "fail_primary", "fail_previous"} :
                      Upsert(p, outcome))
        /\ WF_vars(\E id \in AllAliasIds, outcome \in {"ok", "fail"} :
                      deleteGroupAlias(p, id, outcome))

SpecFair == Start({}) /\ [][Next]_vars /\ Fairness

\* The same workers with a Read by id arriving at any moment.
NextRead ==
    \/ Next
    \/ \E id \in {Empty} \cup AllAliasIds : pathGroupAliasIDRead(id)

SpecRead == Start({"read"}) /\ [][NextRead]_vars

\* The same workers with a List running beside them.
NextList ==
    \/ Next
    \/ ListOpen
    \/ pathGroupAliasIDList

SpecList == Start({"list"}) /\ [][NextList]_vars

\* ===================================================================== claims
Live(a) == aliases[a] # Nil

LiveIds == {a \in AllAliasIds : Live(a)}

\* The groups of the index whose alias list holds the alias.
Owners(a) ==
    {g \in AllGroupIds : groups[g] # Nil /\ a \in SeqIds(groups[g].Alias)}

\* The same two, in the index as it was before the last operation.
PreLive(a) == a \in AllAliasIds /\ last.pre.aliases[a] # Nil

PreOwners(a) ==
    {g \in AllGroupIds :
        last.pre.groups[g] # Nil /\ a \in SeqIds(last.pre.groups[g].Alias)}

PreGroup(g) == g \in AllGroupIds /\ last.pre.groups[g] # Nil

\* A live alias of the earlier index, other than skip, with the request's
\* (mount_accessor, name).
PreFactorMatch(skip) ==
    \E a \in AllAliasIds \ {skip} :
        /\ last.pre.aliases[a] # Nil
        /\ last.pre.aliases[a].MountAccessor = last.d.mount_accessor
        /\ last.pre.aliases[a].Name = last.d.name

Mutating == last.path \in {"create", "update"} /\ last.pre # Nil

\* The request passed the checks on its own fields.
WellFormed ==
    /\ last.d.name # ""
    /\ last.d.mount_accessor \in ValidMounts
    /\ Get(last.d.group_id) = Empty \/ PreGroup(Get(last.d.group_id))

CriticalSection == {"locked", "upsert"}

\* C1: no two live aliases of the index have the same (mount_accessor, name).
C1_Uniqueness ==
    \A a, b \in AllAliasIds :
        (a # b /\ Live(a) /\ Live(b)) =>
            ~(/\ aliases[a].MountAccessor = aliases[b].MountAccessor
              /\ aliases[a].Name = aliases[b].Name)

C1_Witness ==
    /\ last.path = "create"
    /\ last.resp.msg = InUse
    /\ Cardinality(LiveIds) = 2

\* C2: every live alias is in the alias list of exactly one group, and that
\* group's id is the alias's group_id.
C2_SingleOwnership ==
    \A a \in AllAliasIds :
        Live(a) => Owners(a) = {aliases[a].GroupID}

\* A request to move a live alias to another existing group.
TransferRequested ==
    /\ last.path = "update"
    /\ last.pre # Nil
    /\ WellFormed
    /\ PreLive(last.d.id)
    /\ PreGroup(Get(last.d.group_id))
    /\ PreOwners(last.d.id) # {}
    /\ Get(last.d.group_id) \notin PreOwners(last.d.id)
    /\ ~PreFactorMatch(last.d.id)

\* The groups of a group table whose alias list holds the alias.
OwnersIn(table, a) ==
    {g \in AllGroupIds : table[g] # Nil /\ a \in SeqIds(table[g].Alias)}

\* The step in which worker p commits a transfer.
TransferStep(p) ==
    /\ pc[p] = "upsert"
    /\ pc'[p] = "idle"
    /\ call[p].path = "update"
    /\ work[p].plan.previousGroup # Nil

\* C3: the commit of a transfer takes the index from the state in which only
\* the previous group lists the alias to the state in which only the target
\* group does, or leaves it as it is; and a Read by id, made at any moment,
\* finds its alias listed by at most one group, the one the alias names.
C3_TransferAtomicForReaders ==
    /\ [][\A p \in Procs :
            TransferStep(p) =>
                LET a == work[p].plan.groupAlias.ID
                    A == work[p].plan.previousGroup.ID
                    B == work[p].plan.group.ID
                IN /\ OwnersIn(groups, a) = {A}
                   /\ \/ /\ OwnersIn(groups', a) = {B}
                         /\ aliases'[a].GroupID = B
                      \/ /\ aliases' = aliases
                         /\ groups' = groups]_vars
    /\ [](last.op = "read" /\ last.resp.status = "ok" =>
             /\ Cardinality(Owners(last.d.id)) <= 1
             /\ Owners(last.d.id) \subseteq {last.resp.data.group_id})

\* A reader has seen alias 1, registered into group 1, as a member of group 2
\* while a writer is at work.
C3_Witness ==
    /\ last.op = "read"
    /\ last.d.id = AliasId(1)
    /\ last.resp.data.group_id = GroupId(2)
    /\ Owners(AliasId(1)) = {GroupId(2)}
    /\ \E p \in Procs : pc[p] \in CriticalSection

\* C4: an update that names an existing group other than the alias's owner,
\* and meets no Packed Store failure, succeeds with a warning; afterwards the
\* former owner no longer lists the alias, the target lists it next to what it
\* listed before, and the alias's group_id is the target's id.
C4_TransferPostState ==
    (TransferRequested /\ last.io \notin {"fail_primary", "fail_previous"}) =>
        /\ last.resp.status = "ok"
        /\ last.resp.warned
        /\ Owners(last.d.id) = {Get(last.d.group_id)}
        /\ aliases[last.d.id].GroupID = Get(last.d.group_id)
        /\ SeqIds(last.pre.groups[Get(last.d.group_id)].Alias)
               \subseteq SeqIds(groups[Get(last.d.group_id)].Alias)

\* A well-formed request whose (mount_accessor, name) is taken: by any live
\* alias on a create, by a live alias other than the one updated on an update.
CollisionRequested ==
    /\ Mutating
    /\ WellFormed
    /\ \/ last.path = "create" /\ PreFactorMatch(Empty)
       \/ last.path = "update" /\ PreLive(last.d.id) /\ PreFactorMatch(last.d.id)

\* C5: a create or update into a taken (mount_accessor, name) fails with the
\* uniqueness error and leaves index and store as they were.
C5_CollisionRejected ==
    CollisionRequested =>
        /\ last.resp.status = "error"
        /\ last.resp.msg = InUse
        /\ Index = last.pre

\* C6: a register or update that met a failed Packed Store write answers with
\* a fatal error and leaves the index as it was before the operation.
C6_NoPartialCommit ==
    (Mutating /\ last.io \in {"fail_primary", "fail_previous"}) =>
        /\ last.resp.status = "fatal"
        /\ aliases = last.pre.aliases
        /\ groups = last.pre.groups

C6_Witness ==
    /\ last.path = "create"
    /\ last.io = "fail_primary"
    /\ LiveIds # {}
    /\ Get(last.d.group_id) \in AllGroupIds

\* The last operation was a transfer that got as far as the Packed Store.
TransferWritten == TransferRequested /\ last.io # "none"

\* C7: a transfer that reaches the Packed Store writes the target and the
\* previous group.  When a write fails the operation is reported as failed and
\* store and index show neither group changed; otherwise both show the alias
\* in the target group and in no other.
C7_TwoGroupWrite ==
    TransferWritten =>
        IF last.io \in {"fail_primary", "fail_previous"}
        THEN /\ last.resp.status = "fatal"
             /\ store = last.pre.store
             /\ groups = last.pre.groups
        ELSE /\ last.resp.status = "ok"
             /\ OwnersIn(store, last.d.id) = {Get(last.d.group_id)}
             /\ OwnersIn(groups, last.d.id) = {Get(last.d.group_id)}

\* A transfer of alias 1 to group 2 has failed at the write of the previous
\* group.
C7_Witness ==
    /\ TransferWritten
    /\ last.io = "fail_previous"
    /\ last.d.id = AliasId(1)
    /\ Get(last.d.group_id) = GroupId(2)

\* C8: at most one worker is between taking the lock and its commit, that
\* worker holds the lock, and index and store are as it found them.
C8_MutualExclusion ==
    \A p \in Procs :
        pc[p] \in CriticalSection =>
            /\ groupLock = p
            /\ Index = snap[p]
            /\ \A q \in Procs \ {p} : pc[q] \notin CriticalSection

C8_Witness ==
    \E p, q \in Procs :
        /\ pc[p] = "upsert"
        /\ pc[q] = "wait"
        /\ call[q].path = "delete"
        /\ LiveIds # {}

\* C9: a delete of a live alias id takes the alias out of the index and out of
\* its group's list; a delete of an id that denotes no live alias succeeds and
\* leaves index and store as they were.
C9_IdempotentDelete ==
    (last.op = "delete" /\ last.d.id \in AllAliasIds /\ last.io # "fail") =>
        /\ last.resp.status = "ok"
        /\ ~Live(last.d.id)
        /\ Owners(last.d.id) = {}
        /\ ~PreLive(last.d.id) => Index = last.pre

\* C10: a read of an id registered earlier, and neither updated nor deleted
\* since, finds the alias and returns the name and mount accessor that the
\* registration supplied.
C10_RoundTrip ==
    (last.op = "read" /\ last.d.id \in AllAliasIds /\ reg[last.d.id] # Nil) =>
        /\ last.resp.status = "ok"
        /\ last.resp.data.name = reg[last.d.id].name
        /\ last.resp.data.mount_accessor = reg[last.d.id].mount_accessor

C10_Witness ==
    /\ last.op = "read"
    /\ last.d.id = AliasId(2)
    /\ reg[AliasId(2)] # Nil
    /\ last.resp.data.name = "bob"

\* C11: a register or update answered with a validation error leaves the
\* index and the store as they were before the operation.
C11_ErrorsHaveNoEffect ==
    (last.op \in {"register", "update"} /\ last.resp.status = "error") =>
        Index = last.pre

C11_Witness ==
    /\ last.path = "create"
    /\ last.resp.status = "error"
    /\ last.resp.msg = "invalid mount accessor"
    /\ LiveIds # {}

\* A successful create that named an existing group.
CreatedInto(g) ==
    /\ last.path = "create"
    /\ last.resp.status = "ok"
    /\ Get(last.d.group_id) = g
    /\ PreGroup(g)

\* C12: a create into an existing group adds the new alias to the group's
\* list and keeps every alias the group listed before.
C12_CreateAppends ==
    \A g \in AllGroupIds :
        CreatedInto(g) =>
            /\ last.resp.data.id \in SeqIds(groups[g].Alias)
            /\ SeqIds(last.pre.groups[g].Alias) \subseteq SeqIds(groups[g].Alias)

\* A well-formed create that names no group and collides with no alias.
ImplicitCreate ==
    /\ last.path = "create"
    /\ last.pre # Nil
    /\ WellFormed
    /\ Get(last.d.group_id) = Empty
    /\ ~PreFactorMatch(Empty)
    /\ last.io # "fail_primary"

\* C13: such a create succeeds; it returns an alias id and a group id that
\* were in use by no alias and no group, the new group lists exactly the new
\* alias, and every other group is as it was.
C13_ImplicitGroup ==
    ImplicitCreate =>
        /\ last.resp.status = "ok"
        /\ last.resp.data.id \in AllAliasIds
        /\ last.resp.data.group_id \in AllGroupIds
        /\ ~PreLive(last.resp.data.id)
        /\ ~PreGroup(last.resp.data.group_id)
        /\ Live(last.resp.data.id)
        /\ groups[last.resp.data.group_id] # Nil
        /\ groups[last.resp.data.group_id].Alias = <<aliases[last.resp.data.id]>>
        /\ aliases[last.resp.data.id].GroupID = last.resp.data.group_id
        /\ \A g \in AllGroupIds \ {last.resp.data.group_id} :
               groups[g] = last.pre.groups[g]

C13_Witness ==
    /\ ImplicitCreate
    /\ last.resp.data.group_id = GroupId(2)
    /\ last.d.name = "bob"

\* C14: a List returns exactly the ids of the aliases that were live in the
\* index when its iterator was made, each once, whatever was committed since.
C14_ListSnapshot ==
    last.op = "list" =>
        LET keys == last.resp.data.keys
            listed == {keys[k] : k \in DOMAIN keys}
        IN /\ listed = last.pre
           /\ Len(keys) = Cardinality(listed)

\* Two aliases were registered and the first deleted before the iterator was
\* made, and a third commit came before the ids were returned.
C14_Witness ==
    /\ last.op = "list"
    /\ last.resp.data.keys = <<AliasId(2)>>
    /\ LiveIds = {}

\* The request names a group the index does not hold.
UnknownGroup ==
    /\ Get(last.d.group_id) # Empty
    /\ ~PreGroup(Get(last.d.group_id))

\* The request got past the check of its id: it carried none, or the id of a
\* live alias.
IdPasses == last.path = "create" \/ PreLive(last.d.id)

MountErrors == {"missing mount_accessor", "invalid mount accessor"}

\* C15 as stated: the name and the mount accessor are checked before the
\* group id, so a request with an unknown group id and an empty name is
\* refused for the name, and one with a name and an unresolvable mount
\* accessor is refused for the mount accessor.
C15_ValidationOrder ==
    (Mutating /\ IdPasses /\ UnknownGroup) =>
        /\ last.d.name = "" => last.resp.msg = "missing alias name"
        /\ (last.d.name # "" /\ last.d.mount_accessor \notin ValidMounts) =>
               last.resp.msg \in MountErrors

\* C15, amended: the group id is checked before the name and the mount
\* accessor.  A create is refused for the first of group id, name, mount
\* accessor that fails, and no request with an unknown group id is refused
\* for its name or its mount accessor.
C15_GroupIdFirst ==
    /\ (Mutating /\ last.path = "create") =>
          IF UnknownGroup THEN last.resp.msg = "invalid group ID"
          ELSE IF last.d.name = "" THEN last.resp.msg = "missing alias name"
          ELSE IF last.d.mount_accessor = ""
          THEN last.resp.msg = "missing mount_accessor"
          ELSE IF last.d.mount_accessor \notin ValidMounts
          THEN last.resp.msg = "invalid mount accessor"
          ELSE last.resp.msg \notin
                   {"invalid group ID", "missing alias name"} \cup MountErrors
    /\ (Mutating /\ UnknownGroup) =>
          /\ last.resp.status = "error"
          /\ last.resp.msg \notin {"missing alias name"} \cup MountErrors

C15_Witness ==
    /\ Mutating
    /\ last.path = "create"
    /\ UnknownGroup
    /\ last.d.name = ""
    /\ last.d.mount_accessor = "bogus"
    /\ last.resp.msg = "invalid group ID"
    /\ LiveIds # {}

\* C16 as stated: a register whose id field is absent or present but empty
\* takes the create path.
C16_EmptyIdCreates ==
    (last.op = "register" /\ last.d.id \in {Absent, Empty}) =>
        /\ last.path = "create"
        /\ last.resp.msg # "empty group alias ID"

\* C16, amended: a register is handled as an update whenever it carries an id
\* field.  With the field present but empty it is refused with "empty group
\* alias ID" and nothing changes; only with the field absent does it take the
\* create path, and with a non-empty id it takes the update path.
C16_Dispatch ==
    last.op = "register" =>
        /\ last.d.id = Absent <=> last.path = "create"
        /\ last.d.id = Empty =>
              /\ last.resp = ErrorResponse("empty group alias ID")
              /\ Index = last.pre

C16_Witness ==
    /\ last.op = "register"
    /\ last.d.id = Empty
    /\ last.path = "update"
    /\ last.resp.msg = "empty group alias ID"
    /\ LiveIds # {}

\* C17: an update finds its alias by the id the request supplies: with the
\* id of a live alias it is not refused for the id and, when it succeeds,
\* answers with that id; with any other id it is refused with "invalid group
\* alias ID" and nothing changes.
C17_LookupByAliasId ==
    (Mutating /\ last.path = "update" /\ Get(last.d.id) # Empty) =>
        IF PreLive(last.d.id)
        THEN /\ last.resp.msg # "invalid group alias ID"
             /\ last.resp.status = "ok" => last.resp.data.id = last.d.id
        ELSE /\ last.resp = ErrorResponse("invalid group alias ID")
             /\ Index = last.pre

\* A well-formed update of a live alias that names no group, or the group
\* that lists the alias, and collides with no other alias.
InPlaceRequested ==
    /\ Mutating
    /\ last.path = "update"
    /\ PreLive(last.d.id)
    /\ WellFormed
    /\ PreOwners(last.d.id) # {}
    /\ Get(last.d.group_id) \in {Empty} \cup PreOwners(last.d.id)
    /\ ~PreFactorMatch(last.d.id)
    /\ last.io \notin {"fail_primary", "fail_previous"}

\* C18: such an update does not move the alias: it succeeds without a
\* warning, the same group lists the alias afterwards, the alias carries the
\* request's name and mount accessor, and every other group is as it was.
C18_NoTransfer ==
    InPlaceRequested =>
        /\ last.resp.status = "ok"
        /\ ~last.resp.warned
        /\ Owners(last.d.id) = PreOwners(last.d.id)
        /\ Live(last.d.id)
        /\ aliases[last.d.id].Name = last.d.name
        /\ aliases[last.d.id].MountAccessor = last.d.mount_accessor
        /\ aliases[last.d.id].GroupID = last.pre.aliases[last.d.id].GroupID
        /\ \A g \in AllGroupIds \ PreOwners(last.d.id) :
               groups[g] = last.pre.groups[g]

\* C19: every live alias is listed by some group, so the reverse lookup of an
\* update finds its owner and no operation answers "group alias is not
\* associated with a group".
C19_OwnerAlwaysFound ==
    /\ \A a \in LiveIds : memDBGroupByAliasID(a) # Nil
    /\ last.resp.msg # "group alias is not associated with a group"

\* C20: the lock is held only by a worker between taking it and the return of
\* its handler, whatever the handler returns; and every worker waiting for
\* the lock gets through it to the end of its handler.
C20_LockReleasedAndProgress ==
    /\ [](\A p \in Procs : groupLock = p => pc[p] \in CriticalSection)
    /\ [](groupLock \in Procs \cup {"free"})
    /\ \A p \in Procs : (pc[p] = "wait") ~> (pc[p] = "idle")

\* A register and the delete of its alias have both returned and the lock is
\* free for a worker that waits to update.
C20_Witness ==
    \E p \in Procs :
        /\ pc[p] = "wait"
        /\ call[p].path = "update"
        /\ groupLock = "free"
        /\ nextAlias = 2
        /\ LiveIds = {}

====
